---- MODULE Spec2Model ----
(***************************************************************************)
(* libMesh error-reporting facility (include/base/libmesh_exceptions.h):   *)
(* the exception classes and the LIBMESH_THROW / libmesh_try /             *)
(* libmesh_catch macros in their two build configurations.                 *)
(*                                                                         *)
(* A std::string is a sequence of one-character strings.                   *)
(***************************************************************************)
EXTENDS Integers, Sequences, FiniteSets, TLC

VARIABLES e, inHandler, lastRead, prevSolve, build, raised

vars == <<e, inHandler, lastRead, prevSolve, build, raised>>

taxVars == <<e, inHandler, lastRead, prevSolve>>

propVars == <<build, raised>>

(***************************************************************************)
(* Bounds of the model.                                                    *)
(***************************************************************************)
\* filenames and messages are strings of at most MaxLen characters
MaxLen == 2

\* solver error codes range over -MaxCode .. MaxCode
MaxCode == 12

(***************************************************************************)
(* Strings.                                                                *)
(***************************************************************************)
Alphabet == {"a", "/", " "}

RECURSIVE StringsUpTo(_)
StringsUpTo(n) ==
  IF n = 0 THEN {<< >>}
  ELSE LET shorter == StringsUpTo(n - 1)
       IN  shorter \cup {Append(s, c) : s \in shorter, c \in Alphabet}

MissingDat == <<"m", "i", "s", "s", "i", "n", "g", ".", "d", "a", "t">>

Filenames == StringsUpTo(MaxLen) \cup {MissingDat}

\* strings a caller passes to LogicError(msg) or assigns to what_message
Messages == {<< >>, <<"a", " ">>}

\* values a caller assigns to error_code
WrittenCodes == {-1, 0, 7}

Codes == (0 - MaxCode) .. MaxCode

DigitChar == <<"0", "1", "2", "3", "4", "5", "6", "7", "8", "9">>

\* std::ostream::operator<<(int) in the classic locale: decimal, a leading
\* '-' for a negative value, no padding, no grouping.
RECURSIVE NatToString(_)
NatToString(n) ==
  IF n < 10 THEN <<DigitChar[n + 1]>>
  ELSE NatToString(n \div 10) \o <<DigitChar[(n % 10) + 1]>>

IntToString(n) ==
  IF n < 0 THEN <<"-">> \o NatToString(0 - n) ELSE NatToString(n)

(***************************************************************************)
(* The exception classes.  An instance is a record: kind is its dynamic    *)
(* type, msg the string held by the std::logic_error / std::runtime_error  *)
(* base (empty for SolverException, whose base is std::exception), and     *)
(* error_code / what_message the public members of SolverException.        *)
(* arg, what0 and code0 record the constructor argument and what was read  *)
(* from the instance right after its construction.                         *)
(***************************************************************************)
Kinds == {"LogicError", "NotImplemented", "FileError", "ConvergenceFailure",
          "DynamicCastFailure", "FloatingPointException", "SolverException"}

NoArg == <<"noarg">>

StdException(kind, msg) ==
  [kind |-> kind, msg |-> msg, error_code |-> 0, what_message |-> << >>]

LogicErrorDefault ==
  StdException("LogicError",
    <<"E","r","r","o","r"," ","i","n"," ","l","i","b","M","e","s","h"," ",
      "i","n","t","e","r","n","a","l"," ","l","o","g","i","c">>)

LogicError(message) == StdException("LogicError", message)

NotImplemented ==
  StdException("NotImplemented",
    <<"E","r","r","o","r",":"," ","n","o","t"," ",
      "i","m","p","l","e","m","e","n","t","e","d","!">>)

FileErrorPrefix ==
  <<"E","r","r","o","r"," ","a","c","c","e","s","s","i","n","g"," ",
    "f","i","l","e",":"," ">>

\* variant: an empty filename is not appended
FileErrorSkipsEmpty(filename) ==
  StdException("FileError",
    FileErrorPrefix \o (IF filename = << >> THEN <<"?">> ELSE filename))

FileError(filename) == StdException("FileError", FileErrorPrefix \o filename)

ConvergenceFailure ==
  StdException("ConvergenceFailure",
    <<"U","n","r","e","c","o","v","e","r","a","b","l","e"," ",
      "f","a","i","l","u","r","e"," ","t","o"," ",
      "c","o","n","v","e","r","g","e">>)

DynamicCastFailure ==
  StdException("DynamicCastFailure",
    <<"F","a","i","l","e","d"," ","d","y","n","a","m","i","c"," ",
      "c","a","s","t","!">>)

FloatingPointException ==
  StdException("FloatingPointException",
    <<"l","i","b","m","e","s","h"," ","F","P","E","!">>)

SolvePrefix == <<"E","r","r","o","r"," ","c","o","d","e"," ">>

SolveSuffix == <<" ","d","u","r","i","n","g"," ","s","o","l","v","e",".">>

Endl == <<"\n">>

\* variant: the message is built without std::endl
SolverExceptionNoEndl(error_code_in) ==
  [kind |-> "SolverException", msg |-> << >>,
   error_code |-> error_code_in,
   what_message |-> SolvePrefix \o IntToString(error_code_in) \o SolveSuffix]

SolverException(error_code_in) ==
  [kind |-> "SolverException", msg |-> << >>,
   error_code |-> error_code_in,
   what_message |->
     SolvePrefix \o IntToString(error_code_in) \o SolveSuffix \o Endl]

\* what(): SolverException overrides it to return what_message.c_str(), the
\* other classes inherit the std:: base's, which returns the stored string.
what(x) == IF x.kind = "SolverException" THEN x.what_message ELSE x.msg

\* The implicit copy constructor (throw copy-initialises the exception
\* object, catch by value copies it again): member-wise copy.
CopyOf(x) ==
  [kind |-> x.kind, msg |-> x.msg,
   error_code |-> x.error_code, what_message |-> x.what_message]

(***************************************************************************)
(* Operations on an instance.  e is [obj, arg, what0, code0], or None.     *)
(***************************************************************************)
None == [obj |-> "none"]

Fresh(x, a) ==
  [obj |-> x, arg |-> a, what0 |-> what(x), code0 |-> x.error_code]

\* the constructor argument and first description of the SolverException
\* constructed before the current instance
Remember ==
  IF e # None /\ e.obj.kind = "SolverException"
  THEN [obj |-> "solve", arg |-> e.arg, what0 |-> e.what0]
  ELSE prevSolve

Constructed(x, a) ==
  /\ e' = Fresh(x, a)
  /\ inHandler' = FALSE
  /\ lastRead' = what(x)
  /\ prevSolve' = Remember
  /\ UNCHANGED propVars

ConstructLogicErrorDefault == Constructed(LogicErrorDefault, NoArg)

ConstructLogicError == \E m \in Messages : Constructed(LogicError(m), m)

ConstructNotImplemented == Constructed(NotImplemented, NoArg)

ConstructFileError == \E f \in Filenames : Constructed(FileError(f), f)

ConstructConvergenceFailure == Constructed(ConvergenceFailure, NoArg)

ConstructDynamicCastFailure == Constructed(DynamicCastFailure, NoArg)

ConstructFloatingPointException == Constructed(FloatingPointException, NoArg)

ConstructSolverException == \E c \in Codes : Constructed(SolverException(c), c)

\* e.what()
ReadWhat ==
  /\ e # None
  /\ lastRead' = what(e.obj)
  /\ UNCHANGED <<e, inHandler, prevSolve>>
  /\ UNCHANGED propVars

\* e.error_code = c  (public member)
WriteErrorCode ==
  /\ e # None
  /\ e.obj.kind = "SolverException"
  /\ \E c \in WrittenCodes : e' = [e EXCEPT !.obj.error_code = c]
  /\ UNCHANGED <<inHandler, lastRead, prevSolve>>
  /\ UNCHANGED propVars

\* e.what_message = m  (public member)
WriteWhatMessage ==
  /\ e # None
  /\ e.obj.kind = "SolverException"
  /\ \E m \in Messages : e' = [e EXCEPT !.obj.what_message = m]
  /\ UNCHANGED <<inHandler, lastRead, prevSolve>>
  /\ UNCHANGED propVars

\* throw e; ... catch (T & x): the handler sees the exception object, a copy
\* of e.
TransferToHandler ==
  /\ e # None
  /\ ~inHandler
  /\ e' = [e EXCEPT !.obj = CopyOf(e.obj)]
  /\ inHandler' = TRUE
  /\ UNCHANGED <<lastRead, prevSolve>>
  /\ UNCHANGED propVars

TaxNext ==
  \/ ConstructLogicErrorDefault
  \/ ConstructLogicError
  \/ ConstructNotImplemented
  \/ ConstructFileError
  \/ ConstructConvergenceFailure
  \/ ConstructDynamicCastFailure
  \/ ConstructFloatingPointException
  \/ ConstructSolverException
  \/ ReadWhat
  \/ WriteErrorCode
  \/ WriteWhatMessage
  \/ TransferToHandler

(***************************************************************************)
(* Propagation Mode Selector: LIBMESH_THROW, libmesh_try, libmesh_catch.   *)
(*                                                                         *)
(* The same program text is compiled twice, once with                      *)
(* LIBMESH_ENABLE_EXCEPTIONS defined ("structured") and once without       *)
(* ("terminate"), and the two builds execute it statement by statement.    *)
(* build[m] is the state of the process built in mode m.                   *)
(***************************************************************************)
Modes == {"structured", "terminate"}

\* the program contains at most MaxCatches libmesh_catch clauses
MaxCatches == 2

\* the program acquires at most MaxRes scoped resources
MaxRes == 1

Roots == {"std::runtime_error", "std::logic_error"}

CatchTypes == Kinds \cup Roots

\* variant: FileError derives from std::exception directly
BaseDetachedFileError(t) ==
  CASE t = "LogicError"             -> "std::logic_error"
    [] t = "NotImplemented"         -> "std::logic_error"
    [] t = "FileError"              -> "std::exception"
    [] t = "ConvergenceFailure"     -> "std::runtime_error"
    [] t = "DynamicCastFailure"     -> "std::runtime_error"
    [] t = "FloatingPointException" -> "std::runtime_error"
    [] t = "SolverException"        -> "std::exception"
    [] t = "std::logic_error"       -> "std::exception"
    [] t = "std::runtime_error"     -> "std::exception"
    [] OTHER                        -> "none"

\* the direct base class, from the class heads
Base(t) ==
  CASE t = "LogicError"             -> "std::logic_error"
    [] t = "NotImplemented"         -> "std::logic_error"
    [] t = "FileError"              -> "std::runtime_error"
    [] t = "ConvergenceFailure"     -> "std::runtime_error"
    [] t = "DynamicCastFailure"     -> "std::runtime_error"
    [] t = "FloatingPointException" -> "std::runtime_error"
    [] t = "SolverException"        -> "std::exception"
    [] t = "std::logic_error"       -> "std::exception"
    [] t = "std::runtime_error"     -> "std::exception"
    [] OTHER                        -> "none"

RECURSIVE IsA(_, _)
IsA(t, c) == t = c \/ (Base(t) # "none" /\ IsA(Base(t), c))

\* catch (c) accepts a thrown object of dynamic type k
Matches(c, k) == IsA(k, c)

\* the handlers of one try are tried in order of appearance
FirstMatch(hs, k) ==
  IF \E i \in 1..Len(hs) : Matches(hs[i], k)
  THEN CHOOSE i \in 1..Len(hs) :
         /\ Matches(hs[i], k)
         /\ \A j \in 1..(i - 1) : ~Matches(hs[j], k)
  ELSE 0

RECURSIVE ListsUpTo(_)
ListsUpTo(n) ==
  IF n = 0 THEN {<< >>}
  ELSE LET shorter == ListsUpTo(n - 1)
       IN  shorter \cup {Append(hs, c) : hs \in shorter, c \in CatchTypes}

\* the handler lists that can follow one libmesh_try
HandlerLists(n) == ListsUpTo(n) \ {<< >>}

Scope(region, hs) == [region |-> region, handlers |-> hs, res |-> 0]

InitBuild ==
  [status |-> "Running", stack |-> <<Scope("function", << >>)>>,
   exit |-> "none", catches |-> 0,
   rstate |-> "Armed", rkind |-> "none", entered |-> << >>, passed |-> << >>,
   handlerRan |-> FALSE, acquired |-> 0, released |-> 0, leaked |-> 0]

Top(b) == b.stack[Len(b.stack)]

Pop(b) == SubSeq(b.stack, 1, Len(b.stack) - 1)

RECURSIVE Held(_)
Held(stack) ==
  IF stack = << >> THEN 0
  ELSE stack[Len(stack)].res + Held(SubSeq(stack, 1, Len(stack) - 1))

\* some active try has a handler for kind k
HasHandler(stack, k) ==
  \E i \in 1..Len(stack) :
    stack[i].region = "try" /\ FirstMatch(stack[i].handlers, k) # 0

\* std::abort(): the process ends by SIGABRT, no destructor runs
Abort(b) ==
  [b EXCEPT !.status = "Terminated", !.exit = "SIGABRT",
            !.rstate = "Terminated", !.leaked = Held(b.stack),
            !.stack = << >>]

\* variant: both configurations throw
LIBMESH_THROW_BothThrow(m, b, k) ==
  [b EXCEPT !.rkind = k, !.entered = << >>, !.passed = << >>,
            !.status = "Unwinding", !.rstate = "Raised"]

\* #define LIBMESH_THROW(e) do { throw e; } while (0)       (structured)
\* #define LIBMESH_THROW(e) do { std::abort(); } while (0)  (terminate)
LIBMESH_THROW(m, b, k) ==
  LET r == [b EXCEPT !.rkind = k, !.entered = << >>, !.passed = << >>]
  IN  IF m = "structured"
      THEN [r EXCEPT !.status = "Unwinding", !.rstate = "Raised"]
      ELSE Abort(r)

\* #define libmesh_try try   (structured)
\* #define libmesh_try       (terminate): the body is a plain block
\* Either way control enters the block that follows.
libmesh_try(m, b, hs) ==
  [b EXCEPT !.stack = Append(b.stack, Scope("try", hs)),
            !.catches = b.catches + Len(hs)]

\* variant: #define libmesh_catch(e) if (1)
libmesh_catch_condition_true == TRUE

\* #define libmesh_catch(e) if (0)   (terminate): the controlling expression
libmesh_catch_condition == FALSE

\* Control reaches the end of the try block.  structured: the handlers are
\* skipped.  terminate: each "if (0) { handler }" is evaluated in turn.
EndOfTryBlock(m, b) ==
  IF m = "terminate" /\ libmesh_catch_condition
  THEN [b EXCEPT !.stack = Append(Pop(b), Scope("handler", << >>)),
                 !.released = @ + Top(b).res,
                 !.handlerRan = TRUE]
  ELSE [b EXCEPT !.stack = Pop(b), !.released = @ + Top(b).res]

\* Control reaches the end of a handler body: it continues after the last
\* handler of the try; the exception object is destroyed.
EndOfHandler(b) ==
  [b EXCEPT !.stack = Pop(b), !.released = @ + Top(b).res,
            !.rstate = "Armed", !.rkind = "none",
            !.entered = << >>, !.passed = << >>]

\* variant: a handler is passed over while an enclosing try has one too
HandlerIndexOuterFirst(b) ==
  IF Top(b).region = "try" /\ ~HasHandler(Pop(b), b.rkind)
  THEN FirstMatch(Top(b).handlers, b.rkind) ELSE 0

\* The handler of the innermost active scope that takes the exception in
\* flight: its first matching handler if the scope is a try block, else 0.
HandlerIndex(b) ==
  IF Top(b).region = "try" THEN FirstMatch(Top(b).handlers, b.rkind) ELSE 0

\* variant: the handler runs and the exception keeps propagating
EnterHandlerKeepsPropagating(b, i) ==
  [b EXCEPT
     !.stack = Pop(b),
     !.released = @ + Top(b).res,
     !.rstate = "Propagating",
     !.handlerRan = TRUE,
     !.entered = Append(b.entered,
       [depth |-> Len(b.stack), index |-> i,
        type |-> Top(b).handlers[i], handlers |-> Top(b).handlers])]

\* The try block is left and handler i of it is entered: the search for a
\* handler ends here.
EnterHandler(b, i) ==
  [b EXCEPT
     !.stack = Append(Pop(b), Scope("handler", << >>)),
     !.released = @ + Top(b).res,
     !.status = "Running", !.rstate = "Handled",
     !.handlerRan = TRUE,
     !.entered = Append(b.entered,
       [depth |-> Len(b.stack), index |-> i,
        type |-> Top(b).handlers[i], handlers |-> Top(b).handlers])]

\* variant: the scope is left without destroying its automatic objects
LeaveScopeNoCleanup(b) ==
  [b EXCEPT
     !.stack = Pop(b),
     !.rstate = "Propagating",
     !.passed = IF Top(b).region = "try"
                THEN Append(b.passed, Top(b).handlers)
                ELSE b.passed]

\* The exception leaves the innermost active scope, whose automatic objects
\* are destroyed.
LeaveScope(b) ==
  [b EXCEPT
     !.stack = Pop(b), !.released = @ + Top(b).res,
     !.rstate = "Propagating",
     !.passed = IF Top(b).region = "try"
                THEN Append(b.passed, Top(b).handlers)
                ELSE b.passed]

\* variant: an exception that leaves the outermost scope is dropped
UnwindDropsUnhandled(b) ==
  IF b.stack = << >>
  THEN [b EXCEPT !.status = "Exited", !.exit = "EXIT_SUCCESS"]
  ELSE IF HandlerIndex(b) # 0 THEN EnterHandler(b, HandlerIndex(b))
  ELSE LeaveScope(b)

\* One step of "throw e" (structured): the innermost active scope is left;
\* if it is a try block with a handler that matches, that handler is
\* entered.  With no scope left, std::terminate() is called, which calls
\* std::abort().
Unwind(b) ==
  IF b.stack = << >> THEN Abort(b)
  ELSE IF HandlerIndex(b) # 0 THEN EnterHandler(b, HandlerIndex(b))
  ELSE LeaveScope(b)

\* No handler is found for the exception: std::terminate() is called and
\* whether the stack is unwound first is implementation-defined.  This is
\* the outcome without unwinding.
TerminateNoUnwind(b) ==
  LET tries == SelectSeq(b.stack, LAMBDA f : f.region = "try")
  IN  Abort([b EXCEPT !.passed = [i \in 1..Len(tries) |->
                                    tries[Len(tries) + 1 - i].handlers]])

\* return: every active scope of the function is left, innermost first
ReturnFrom(b) ==
  [b EXCEPT !.stack = << >>, !.released = @ + Held(b.stack),
            !.status = "Exited", !.exit = "EXIT_SUCCESS"]

AcquireIn(b) ==
  [b EXCEPT !.stack[Len(b.stack)].res = @ + 1, !.acquired = @ + 1]

(***************************************************************************)
(* The statements of the program.  A statement is executed by every build  *)
(* whose control is at it.                                                 *)
(***************************************************************************)
Live(b) == b.status = "Running"

CanTry(b, hs) == Live(b) /\ b.catches + Len(hs) <= MaxCatches

CanAcquire(b) == Live(b) /\ b.acquired < MaxRes

CanEndTry(b) == Live(b) /\ Top(b).region = "try"

CanEndHandler(b) == Live(b) /\ Top(b).region = "handler"

CanUnwind(b) == b.status = "Unwinding"

CanTerminateNoUnwind(b) ==
  /\ b.status = "Unwinding"
  /\ b.rstate = "Raised"
  /\ ~HasHandler(b.stack, b.rkind)

\* no exception instance constructed yet; both builds at program start
Init ==
  /\ e = None
  /\ inHandler = FALSE
  /\ lastRead = << >>
  /\ prevSolve = None
  /\ build = [m \in Modes |-> InitBuild]
  /\ raised = FALSE

\* libmesh_try { ... } libmesh_catch (hs[1]) { ... } libmesh_catch ...
Try ==
  \E hs \in HandlerLists(MaxCatches) :
    /\ \E m \in Modes : CanTry(build[m], hs)
    /\ build' = [m \in Modes |->
         IF CanTry(build[m], hs) THEN libmesh_try(m, build[m], hs)
         ELSE build[m]]
    /\ UNCHANGED raised
    /\ UNCHANGED taxVars

\* libmesh_try { ... } libmesh_catch (c) { ... }
TryOne ==
  \E hs \in HandlerLists(1) :
    /\ \E m \in Modes : CanTry(build[m], hs)
    /\ build' = [m \in Modes |->
         IF CanTry(build[m], hs) THEN libmesh_try(m, build[m], hs)
         ELSE build[m]]
    /\ UNCHANGED raised
    /\ UNCHANGED taxVars

\* a scoped resource is acquired in the current scope
Acquire ==
  /\ \E m \in Modes : CanAcquire(build[m])
  /\ build' = [m \in Modes |->
       IF CanAcquire(build[m]) THEN AcquireIn(build[m]) ELSE build[m]]
  /\ UNCHANGED raised
  /\ UNCHANGED taxVars

\* LIBMESH_THROW(K())
Throw ==
  \E k \in Kinds :
    /\ \E m \in Modes : Live(build[m])
    /\ build' = [m \in Modes |->
         IF Live(build[m]) THEN LIBMESH_THROW(m, build[m], k) ELSE build[m]]
    /\ raised' = TRUE
    /\ UNCHANGED taxVars

\* the closing brace of a try block
EndTry ==
  /\ \E m \in Modes : CanEndTry(build[m])
  /\ build' = [m \in Modes |->
       IF CanEndTry(build[m]) THEN EndOfTryBlock(m, build[m]) ELSE build[m]]
  /\ UNCHANGED raised
  /\ UNCHANGED taxVars

\* the closing brace of a handler
EndHandler ==
  /\ \E m \in Modes : CanEndHandler(build[m])
  /\ build' = [m \in Modes |->
       IF CanEndHandler(build[m]) THEN EndOfHandler(build[m]) ELSE build[m]]
  /\ UNCHANGED raised
  /\ UNCHANGED taxVars

\* return (early, or at the end of the function)
Return ==
  /\ \E m \in Modes : Live(build[m])
  /\ build' = [m \in Modes |->
       IF Live(build[m]) THEN ReturnFrom(build[m]) ELSE build[m]]
  /\ UNCHANGED raised
  /\ UNCHANGED taxVars

\* the exception in flight leaves one scope
Propagate ==
  /\ \E m \in Modes : CanUnwind(build[m])
  /\ build' = [m \in Modes |->
       IF CanUnwind(build[m]) THEN Unwind(build[m]) ELSE build[m]]
  /\ UNCHANGED raised
  /\ UNCHANGED taxVars

\* the exception in flight has no handler and the implementation does not
\* unwind
TerminateUnhandled ==
  /\ \E m \in Modes : CanTerminateNoUnwind(build[m])
  /\ build' = [m \in Modes |->
       IF CanTerminateNoUnwind(build[m]) THEN TerminateNoUnwind(build[m])
       ELSE build[m]]
  /\ UNCHANGED raised
  /\ UNCHANGED taxVars

PropNext ==
  \/ Try
  \/ Throw
  \/ EndTry
  \/ EndHandler
  \/ Return
  \/ Propagate
  \/ TerminateUnhandled

ScopeNext ==
  \/ TryOne
  \/ Acquire
  \/ Throw
  \/ EndTry
  \/ EndHandler
  \/ Return
  \/ Propagate
  \/ TerminateUnhandled

\* the exception classes on their own
SpecTaxonomy == Init /\ [][TaxNext]_vars

\* the two builds of a program
Spec == Init /\ [][PropNext]_vars

\* the two builds of a program that holds scoped resources
SpecScopes == Init /\ [][ScopeNext]_vars

(***************************************************************************)
(* Properties.                                                             *)
(***************************************************************************)
S == build["structured"]

T == build["terminate"]

HandlerSet(hs) == {hs[i] : i \in 1..Len(hs)}

\* C1: in the terminate build LIBMESH_THROW ends the process at once: once
\* the program has raised, the terminate build is Terminated by SIGABRT,
\* its raise never was Raised, Propagating or Handled, and no handler body
\* has been entered, whatever libmesh_catch clauses surround the raise.
C1_TerminateModeAborts ==
  /\ ~T.handlerRan
  /\ T.entered = << >>
  /\ T.rstate \in {"Armed", "Terminated"}
  /\ T.status \in {"Running", "Exited", "Terminated"}
  /\ raised =>
       /\ T.status = "Terminated"
       /\ T.rstate = "Terminated"
       /\ T.exit = "SIGABRT"

\* the raise is of a kind for which the enclosing try has a handler of
\* exactly that kind (the structured build has entered it); the terminate
\* build is dead without having entered it
C1_Witness ==
  /\ T.status = "Terminated"
  /\ ~T.handlerRan
  /\ S.rstate = "Handled"
  /\ T.rkind = S.rkind
  /\ Len(S.entered) = 1
  /\ S.entered[1].type = S.rkind

\* C2: in the structured build a raise enters at most one handler body, and
\* exactly one when it is handled; the handler entered matches the kind
\* raised; the raise never gets past a try that has a matching handler and
\* never ends the process after a handler was entered.
C2_ExactlyOneHandler ==
  /\ Len(S.entered) <= 1
  /\ (S.rstate = "Handled") <=> (Len(S.entered) = 1)
  /\ \A i \in 1..Len(S.entered) :
       S.entered[i].type \in CatchTypes /\ IsA(S.rkind, S.entered[i].type)
  /\ \A i \in 1..Len(S.passed) :
       \A c \in HandlerSet(S.passed[i]) : ~IsA(S.rkind, c)
  /\ S.status = "Terminated" => S.entered = << >>

\* a raise handled by the first of two sibling handlers that both match
C2_Witness ==
  /\ S.rstate = "Handled"
  /\ Len(S.entered) = 1
  /\ Len(S.entered[1].handlers) = 2
  /\ S.entered[1].index = 1
  /\ \A c \in HandlerSet(S.entered[1].handlers) : IsA(S.rkind, c)
  /\ S.entered[1].handlers[1] # S.entered[1].handlers[2]

\* C3: in the structured build a raise is never dropped: control runs on
\* or exits normally only with no raise in flight (Armed or Handled); a
\* raise in flight can always take its next step; a raise that was not
\* handled ends Terminated, by SIGABRT, with no handler entered; and a raise
\* is handled only by a handler that matches it.
C3_UnhandledTerminates ==
  /\ S.status \in {"Running", "Exited"} => S.rstate \in {"Armed", "Handled"}
  /\ S.status = "Unwinding" =>
       /\ S.rstate \in {"Raised", "Propagating"}
       /\ ENABLED Propagate
  /\ S.rstate = "Terminated" <=> S.status = "Terminated"
  /\ S.status = "Terminated" =>
       /\ S.exit = "SIGABRT"
       /\ S.entered = << >>
       /\ S.stack = << >>
       /\ \A i \in 1..Len(S.passed) :
            \A c \in HandlerSet(S.passed[i]) : ~IsA(S.rkind, c)
  /\ S.exit = "EXIT_SUCCESS" <=> S.status = "Exited"
  /\ S.rstate = "Handled" => IsA(S.rkind, S.entered[1].type)

\* a raise that went past two enclosing try blocks, neither with a handler
\* for it, and ended the process
C3_Witness ==
  /\ S.status = "Terminated"
  /\ S.exit = "SIGABRT"
  /\ Len(S.passed) = 2
  /\ S.rkind = "SolverException"

\* C4: the nearest enclosing matching handler wins: when a raise is handled,
\* no try between the raise and the handler entered has a matching handler,
\* no earlier sibling of the handler matches, and it is the only handler
\* entered: while the program runs on, control is in that handler's body,
\* at the depth of its try.
C4_NearestHandlerWins ==
  S.rstate = "Handled" =>
    /\ Len(S.entered) = 1
    /\ \A i \in 1..Len(S.passed) :
         \A c \in HandlerSet(S.passed[i]) : ~IsA(S.rkind, c)
    /\ \A j \in 1..(S.entered[1].index - 1) :
         ~IsA(S.rkind, S.entered[1].handlers[j])
    /\ S.status = "Running" =>
         /\ S.entered[1].depth <= Len(S.stack)
         /\ S.stack[S.entered[1].depth].region = "handler"

\* Scenario D: ConvergenceFailure raised in the inner try, handled by the
\* inner handler while the outer try, with its handler for
\* std::runtime_error, is still active
C4_Witness ==
  /\ S.rstate = "Handled"
  /\ S.rkind = "ConvergenceFailure"
  /\ S.entered = <<[depth |-> 3, index |-> 1, type |-> "ConvergenceFailure",
                    handlers |-> <<"ConvergenceFailure">>]>>
  /\ Len(S.stack) = 3
  /\ S.stack[2] = Scope("try", <<"std::runtime_error">>)
  /\ S.stack[3].region = "handler"
  /\ S.passed = << >>

ExactlyTheRoots(hs) == Len(hs) = 2 /\ HandlerSet(hs) = Roots

\* C5 as stated: no raise, of any of the seven kinds, propagates past a try
\* that has exactly the two root handlers.
C5_AllKindsUnderRoots ==
  \A i \in 1..Len(S.passed) : ~ExactlyTheRoots(S.passed[i])

\* C5, amended: a raise of one of the six kinds other than SolverException
\* never propagates past a try that has exactly the two root handlers;
\* SolverException is never taken by a root handler.
C5_SixKindsUnderRoots ==
  /\ S.rkind # "SolverException" =>
       \A i \in 1..Len(S.passed) : ~ExactlyTheRoots(S.passed[i])
  /\ S.rkind = "SolverException" =>
       \A i \in 1..Len(S.entered) : S.entered[i].type \notin Roots

\* NotImplemented handled by the second of exactly the two root handlers
C5_Witness ==
  /\ S.rstate = "Handled"
  /\ S.rkind = "NotImplemented"
  /\ Len(S.entered) = 1
  /\ S.entered[1].handlers = <<"std::runtime_error", "std::logic_error">>
  /\ S.entered[1].index = 2

\* C6 as stated: what() of an instance equals what was read right after its
\* construction, whatever has been done to the instance since.
C6_DescriptionFixed ==
  e # None => /\ what(e.obj) = e.what0
              /\ lastRead = e.what0

\* C7: what() of FileError(F) is "Error accessing file: " followed by F.
C7_FileErrorDescription ==
  (e # None /\ e.obj.kind = "FileError") =>
    LET w == what(e.obj)
        n == Len(e.arg)
    IN  /\ w = e.what0
        /\ Len(w) = 22 + n
        /\ SubSeq(w, 1, 22) =
             <<"E","r","r","o","r"," ","a","c","c","e","s","s","i","n","g",
               " ","f","i","l","e",":"," ">>
        /\ SubSeq(w, 23, 22 + n) = e.arg

\* Scenario B, read in the handler
C7_Witness ==
  /\ e # None
  /\ inHandler
  /\ e.obj.kind = "FileError"
  /\ e.arg = MissingDat
  /\ lastRead =
       <<"E","r","r","o","r"," ","a","c","c","e","s","s","i","n","g"," ",
         "f","i","l","e",":"," ","m","i","s","s","i","n","g",".","d","a","t">>
  /\ what(e.obj) = lastRead

DigitValue(c) == CHOOSE d \in 0..9 : DigitChar[d + 1] = c

IsDigit(c) == \E d \in 0..9 : DigitChar[d + 1] = c

RECURSIVE ParseNat(_)
ParseNat(str) ==
  IF Len(str) = 1 THEN DigitValue(str[1])
  ELSE 10 * ParseNat(SubSeq(str, 1, Len(str) - 1)) + DigitValue(str[Len(str)])

\* a decimal numeral: digits, no leading zero, "-" before a non-zero value
IsDecimal(str) ==
  LET digits == IF str # << >> /\ str[1] = "-" THEN Tail(str) ELSE str
  IN  /\ digits # << >>
      /\ \A i \in 1..Len(digits) : IsDigit(digits[i])
      /\ Len(digits) > 1 => digits[1] # "0"
      /\ digits # str => digits # <<"0">>

ParseInt(str) ==
  IF str[1] = "-" THEN 0 - ParseNat(Tail(str)) ELSE ParseNat(str)

\* C8: a SolverException constructed with C has error_code C and the
\* description "Error code " C " during solve." "\n" with C in decimal; an
\* instance constructed with the same C before it had the same description.
C8_SolverExceptionDescription ==
  (e # None /\ e.obj.kind = "SolverException") =>
    LET w == e.what0
        numeral == SubSeq(w, 12, Len(w) - 15)
    IN  /\ e.code0 = e.arg
        /\ Len(w) > 26
        /\ SubSeq(w, 1, 11) =
             <<"E","r","r","o","r"," ","c","o","d","e"," ">>
        /\ SubSeq(w, Len(w) - 14, Len(w)) =
             <<" ","d","u","r","i","n","g"," ","s","o","l","v","e",".","\n">>
        /\ IsDecimal(numeral)
        /\ ParseInt(numeral) = e.arg
        /\ (prevSolve # None /\ prevSolve.arg = e.arg) =>
             prevSolve.what0 = e.what0

\* Scenario C: SolverException(7), constructed for the second time
C8_Witness ==
  /\ e # None
  /\ e.obj.kind = "SolverException"
  /\ e.arg = 7
  /\ e.code0 = 7
  /\ e.obj.error_code = 7
  /\ what(e.obj) =
       <<"E","r","r","o","r"," ","c","o","d","e"," ","7"," ",
         "d","u","r","i","n","g"," ","s","o","l","v","e",".","\n">>
  /\ prevSolve # None
  /\ prevSolve.arg = 7

Balanced(b) == b.acquired = b.released + Held(b.stack)

\* C9 as stated: in either build, once control has left the program's
\* scopes (the process has exited or was terminated), every resource
\* acquired has been released.
C9_ReleasedOnEveryPath ==
  \A m \in Modes :
    build[m].status \in {"Exited", "Terminated"} =>
      build[m].released = build[m].acquired

\* C9, amended: in either build, as long as the process has not been
\* terminated, every resource acquired has been released or is held by a
\* scope still active, and all are released once the function has returned;
\* in the structured build this includes the scopes a raise has left on its
\* way to the handler that took it.  When the process is terminated, what
\* was not released is exactly what was held then.
C9_ReleasedUnlessTerminated ==
  \A m \in Modes :
    LET b == build[m]
    IN  /\ b.status # "Terminated" => Balanced(b) /\ b.leaked = 0
        /\ b.status = "Exited" => b.released = b.acquired
        /\ b.status = "Terminated" => b.acquired = b.released + b.leaked

\* a raise in the structured build left a try block that held a resource,
\* which was released, and was handled by an enclosing try
C9_Witness ==
  /\ S.rstate = "Handled"
  /\ Len(S.passed) = 1
  /\ S.acquired = 1
  /\ S.released = 1
  /\ T.status = "Terminated"
  /\ T.leaked = 1

\* C10: until the program executes its first LIBMESH_THROW the two builds
\* are in the same state after every statement: the same scopes are active,
\* no handler body has been entered, no raise is recorded.
C10_SameStepsWithoutRaise ==
  ~raised =>
    /\ S = T
    /\ ~S.handlerRan /\ ~T.handlerRan
    /\ S.rstate = "Armed" /\ S.entered = << >>
    /\ S.status \in {"Running", "Exited"}

\* try blocks with two handlers in all have run to their ends without a
\* raise and control is back in the function's outermost scope
C10_Witness ==
  /\ ~raised
  /\ S.catches = 2
  /\ T.catches = 2
  /\ S.status = "Running"
  /\ T.status = "Running"
  /\ Len(S.stack) = 1
  /\ Len(T.stack) = 1

====
